---------------------------- MODULE Spec2Model ----------------------------
(***************************************************************************)
(* A model of the expression evaluator of the NEMU simple debugger         *)
(* (nemu/src/monitor/sdb/expr.c): the regex rule table, make_token with    *)
(* its unary/binary disambiguation, is_paired, priority,                   *)
(* find_main_operator_index, eval_expr and expr.                           *)
(*                                                                         *)
(* A text is a sequence of one-character strings.  A token kind is the     *)
(* name of its enum constant ("TK_EQ") or, for the kinds the source writes *)
(* as character constants, that character ("+").                           *)
(***************************************************************************)
EXTENDS Integers, Sequences, FiniteSets, TLC

\* ------------------------------------------------------------------ sizes

\* Token tokens[32]
NR_TOKENS == 32
\* char str[32]
STR_LEN == 32

\* word_t is an unsigned machine word; its arithmetic is modulo 2^w.  The
\* model keeps the modular arithmetic with a narrower word, so that every
\* product stays inside TLC's integers.
WordModulus == 32768

\* The longest text, in lexemes, of the exhaustive inputs.
MaxLexemes == 3
\* The longest well-formed expression, in tokens.
MaxWF == 5
\* The longest sequence of expr calls on one token buffer.
MaxCalls == 3

\* --------------------------------------------------------------- helpers

Min(S) == CHOOSE x \in S : \A y \in S : x <= y
Max(S) == CHOOSE x \in S : \A y \in S : x >= y

RECURSIVE Rep(_, _)
Rep(s, n) == IF n = 0 THEN <<>> ELSE s \o Rep(s, n - 1)

Digits == {"0", "1", "2", "3", "4", "5", "6", "7", "8", "9"}
HexDigits == Digits \cup {"a", "b", "c", "d", "e", "f", "A", "B", "C", "D", "E", "F"}

DigitVal(c) ==
  CASE c = "0" -> 0 [] c = "1" -> 1 [] c = "2" -> 2 [] c = "3" -> 3
    [] c = "4" -> 4 [] c = "5" -> 5 [] c = "6" -> 6 [] c = "7" -> 7
    [] c = "8" -> 8 [] c = "9" -> 9
    [] c \in {"a", "A"} -> 10 [] c \in {"b", "B"} -> 11
    [] c \in {"c", "C"} -> 12 [] c \in {"d", "D"} -> 13
    [] c \in {"e", "E"} -> 14 [] c \in {"f", "F"} -> 15

\* The length of the longest prefix of s made of characters of class.
RECURSIVE RunLen(_, _)
RunLen(s, class) ==
  IF s = <<>> \/ Head(s) \notin class THEN 0 ELSE 1 + RunLen(Tail(s), class)

IsPrefix(pre, s) == Len(pre) <= Len(s) /\ SubSeq(s, 1, Len(pre)) = pre

\* ------------------------------------------------------------ rule table

\* The names the register rule's alternation accepts after the sigil.
RegNames ==
  {<<"$", "0">>, <<"r", "a">>, <<"s", "p">>, <<"g", "p">>, <<"t", "p">>,
   <<"s", "1", "0">>, <<"s", "1", "1">>}
    \cup {<<"t", d>> : d \in {"0", "1", "2", "3", "4", "5", "6"}}
    \cup {<<"s", d>> : d \in Digits}
    \cup {<<"a", d>> : d \in {"0", "1", "2", "3", "4", "5", "6", "7"}}

\* rules[], in declaration order.
rules ==
  << [regex |-> " +", token_type |-> "TK_NOTYPE"],
     [regex |-> "\\+", token_type |-> "+"],
     [regex |-> "==", token_type |-> "TK_EQ"],
     [regex |-> "-", token_type |-> "-"],
     [regex |-> "\\*", token_type |-> "*"],
     [regex |-> "/", token_type |-> "/"],
     [regex |-> "\\(", token_type |-> "("],
     [regex |-> "\\)", token_type |-> ")"],
     [regex |-> "0x[0-9AaBbCcDdEeFf]+", token_type |-> "TK_HEX"],
     [regex |-> "[0-9]+", token_type |-> "TK_UINT"],
     [regex |-> "!=", token_type |-> "TK_NE"],
     [regex |-> "&&", token_type |-> "TK_AND"],
     [regex |-> "\\$(\\$0|ra|sp|gp|tp|t[0-6]|s[0-9]|s10|s11|a[0-7])",
      token_type |-> "TK_REG"] >>

NR_REGEX == Len(rules)

\* regexec(&re[i], s, ...) == 0 && pmatch.rm_so == 0: the length of the match
\* of the pattern at the very start of s (POSIX: the longest one), 0 if the
\* pattern does not match there.  No pattern matches the empty string.
MatchLen(regex, s) ==
  LET lit(w) == IF IsPrefix(w, s) THEN Len(w) ELSE 0
  IN CASE regex = " +" -> RunLen(s, {" "})
       [] regex = "\\+" -> lit(<<"+">>)
       [] regex = "==" -> lit(<<"=", "=">>)
       [] regex = "-" -> lit(<<"-">>)
       [] regex = "\\*" -> lit(<<"*">>)
       [] regex = "/" -> lit(<<"/">>)
       [] regex = "\\(" -> lit(<<"(">>)
       [] regex = "\\)" -> lit(<<")">>)
       [] regex = "0x[0-9AaBbCcDdEeFf]+" ->
            IF IsPrefix(<<"0", "x">>, s) /\ RunLen(SubSeq(s, 3, Len(s)), HexDigits) > 0
            THEN 2 + RunLen(SubSeq(s, 3, Len(s)), HexDigits)
            ELSE 0
       [] regex = "[0-9]+" -> RunLen(s, Digits)
       [] regex = "!=" -> lit(<<"!", "=">>)
       [] regex = "&&" -> lit(<<"&", "&">>)
       [] regex = "\\$(\\$0|ra|sp|gp|tp|t[0-6]|s[0-9]|s10|s11|a[0-7])" ->
            IF s # <<>> /\ Head(s) = "$"
               /\ \E n \in RegNames : IsPrefix(n, Tail(s))
            THEN 1 + Max({Len(n) : n \in {m \in RegNames : IsPrefix(m, Tail(s))}})
            ELSE 0

\* ---------------------------------------------------------------- tokens

\* static Token tokens[32] = {}: every slot zeroed.
ZeroToken == [type |-> "0", str |-> <<>>]
ZeroTokens == [i \in 0 .. NR_TOKENS - 1 |-> ZeroToken]

BinaryKinds == {"+", "-", "*", "/", "TK_EQ", "TK_NE", "TK_AND"}
UnaryKinds == {"TK_DEREF", "TK_NEG"}
OperatorKinds == BinaryKinds \cup UnaryKinds


\* ------------------------------------------------------------ make_token

\* The state make_token works on: the scan position, the token buffer and
\* count (process-wide, kept from call to call), the slots written outside
\* tokens[0 .. 31], the slots read, and how the call stands:
\*   "scan"             inside the while loop
\*   "false"            returned false (no rule matches at the position)
\*   "abort_str_len"    Assert(substr_len < 32) failed
\*   "abort_nr_token"   Assert(nr_token < 32) failed
\*   "undefined"        the write outside the array has undefined behaviour
\* make_token returns true when the scan reaches the end of the text.

\* strncpy(tokens[nr_token].str, substr_start, substr_len) and the
\* terminator: made before nr_token is checked against the capacity.
StoreStr(m, substr) ==
  IF m.nr_token < NR_TOKENS
  THEN [m EXCEPT !.tokens[m.nr_token].str = substr]
  ELSE [m EXCEPT !.oob = @ \cup {m.nr_token}]

\* The kinds after which the source reclassifies `*' and `-' as unary.
UnaryContext == {"+", "-", "*", "/", "(", "TK_EQ", "TK_NE", "TK_AND"}

\* The kind stored for a token matched by a rule of kind current_token,
\* given nr_token and the kind tk of the token before it.
StoredKind(current_token, nr, tk) ==
  IF current_token \in {"*", "-"} /\ (nr = 0 \/ tk \in UnaryContext)
  THEN (IF current_token = "*" THEN "TK_DEREF" ELSE "TK_NEG")
  ELSE current_token

\* Assert(nr_token < 32), the store of the kind, the disambiguation of `*'
\* and `-', nr_token++.
StoreToken(m, token_type) ==
  IF ~(m.nr_token < NR_TOKENS)
  THEN [m EXCEPT !.status = "abort_nr_token"]
  ELSE LET tk == IF m.nr_token = 0 THEN "-1" ELSE m.tokens[m.nr_token - 1].type
       IN [m EXCEPT
             !.tokens[m.nr_token].type = StoredKind(token_type, m.nr_token, tk),
             !.reads = IF token_type \in {"*", "-"} /\ m.nr_token # 0
                       THEN @ \cup {m.nr_token - 1} ELSE @,
             !.nr_token = @ + 1]

\* One iteration of the while loop of make_token on the text e: the set of
\* the states it can end in (one, unless the iteration writes outside the
\* token array).
MakeTokenIter(e, m) ==
  LET rest == SubSeq(e, m.position + 1, Len(e))
      hits == {i \in 1 .. NR_REGEX : MatchLen(rules[i].regex, rest) > 0}
  IN IF hits = {}
     THEN {[m EXCEPT !.status = "false"]}
     ELSE LET i == Min(hits)
              substr_len == MatchLen(rules[i].regex, rest)
              substr == SubSeq(rest, 1, substr_len)
              token_type == rules[i].token_type
              m1 == [m EXCEPT !.position = @ + substr_len]
          IN CASE token_type = "TK_NOTYPE" -> {m1}
               [] token_type \in {"TK_HEX", "TK_UINT", "TK_REG"} ->
                    IF ~(substr_len < STR_LEN)
                    THEN {[m1 EXCEPT !.status = "abort_str_len"]}
                    ELSE LET m2 == StoreStr(m1, substr)
                         IN IF m2.oob # {}
                            THEN {StoreToken(m2, token_type),
                                  [m2 EXCEPT !.status = "undefined"]}
                            ELSE {StoreToken(m2, token_type)}
               [] OTHER -> {StoreToken(m1, token_type)}

\* The while loop of make_token run to its end, for a text that fits the
\* token buffer: used where a whole call is one step.
RECURSIVE MakeTokenLoop(_, _)
MakeTokenLoop(e, m) ==
  IF m.status # "scan" \/ m.position >= Len(e) THEN m
  ELSE MakeTokenLoop(e, CHOOSE m2 \in MakeTokenIter(e, m) : m2.status # "undefined")

\* make_token's entry on the buffer tk0 earlier calls left: position = 0,
\* nr_token = 0; the slots keep their old content.
MakeTokenStart(tk0) ==
  [position |-> 0, nr_token |-> 0, tokens |-> tk0, oob |-> {}, reads |-> {},
   status |-> "scan"]

\* ------------------------------------------------- is_paired and the scan

\* is_paired(p, q) on the token buffer tk.
RECURSIVE PairedScan(_, _, _, _)
PairedScan(tk, i, q, n_left) ==
  IF i > q - 1 THEN n_left = 0
  ELSE IF tk[i].type = "(" THEN PairedScan(tk, i + 1, q, n_left + 1)
  ELSE IF tk[i].type = ")"
       THEN (IF n_left - 1 < 0 THEN FALSE ELSE PairedScan(tk, i + 1, q, n_left - 1))
  ELSE PairedScan(tk, i + 1, q, n_left)

\* The first test of is_paired: false at once when it holds.
EndsMismatch(tk, p, q) == tk[p].type # "(" /\ tk[q].type # ")"

is_paired(tk, p, q) ==
  IF EndsMismatch(tk, p, q) THEN FALSE ELSE PairedScan(tk, p + 1, q, 0)

\* priority with * and / ranked as + and -.
priority_flat(operator) ==
  CASE operator = "TK_AND" -> 0
    [] operator \in {"TK_EQ", "TK_NE"} -> 1
    [] operator \in {"+", "-", "*", "/"} -> 2
    [] operator \in {"TK_DEREF", "TK_NEG"} -> 4

\* priority(operator); the default case is assert(0).
priority(operator) ==
  CASE operator = "TK_AND" -> 0
    [] operator \in {"TK_EQ", "TK_NE"} -> 1
    [] operator \in {"+", "-"} -> 2
    [] operator \in {"*", "/"} -> 3
    [] operator \in {"TK_DEREF", "TK_NEG"} -> 4

\* The same test with < for <=.
TakesOverStrict(main_operator_index, operator, main_operator) ==
  main_operator_index = -1 \/ priority(operator) < priority(main_operator)

\* The test that lets a later depth-0 operator replace the current choice.
TakesOver(main_operator_index, operator, main_operator) ==
  main_operator_index = -1 \/ priority(operator) <= priority(main_operator)

RECURSIVE MainScan(_, _, _, _, _, _)
MainScan(tk, i, q, main_operator_index, main_operator, n_left) ==
  IF i > q THEN main_operator_index
  ELSE LET operator == tk[i].type
       IN CASE operator = "(" ->
                 MainScan(tk, i + 1, q, main_operator_index, main_operator, n_left + 1)
            [] operator = ")" ->
                 MainScan(tk, i + 1, q, main_operator_index, main_operator, n_left - 1)
            [] operator \in OperatorKinds ->
                 IF n_left = 0 /\ TakesOver(main_operator_index, operator, main_operator)
                 THEN MainScan(tk, i + 1, q, i, operator, n_left)
                 ELSE MainScan(tk, i + 1, q, main_operator_index, main_operator, n_left)
            [] OTHER ->
                 MainScan(tk, i + 1, q, main_operator_index, main_operator, n_left)

find_main_operator_index(tk, p, q) == MainScan(tk, p, q, -1, "-1", 0)

\* ------------------------------------------------------------- eval_expr

\* sscanf(str, "%d", &result) and sscanf(str, "%x", &result) on a captured
\* literal; "%x" skips the 0x prefix.
RECURSIVE StrToNum(_, _, _)
StrToNum(str, base, acc) ==
  IF str = <<>> THEN acc
  ELSE StrToNum(Tail(str), base, (acc * base + DigitVal(Head(str))) % WordModulus)

ScanDec(str) == StrToNum(str, 10, 0)
ScanHex(str) ==
  StrToNum(IF IsPrefix(<<"0", "x">>, str) THEN SubSeq(str, 3, Len(str)) ELSE str, 16, 0)

\* isa_reg_str2val(name, success): the register file is outside this file.
\* Its answer is (value, ok); the lookup fails for the names in bad.
isa_reg_str2val(name, bad) ==
  [ok |-> name \notin bad,
   val |-> IF name \in bad \/ name = <<"$", "0">> THEN 0 ELSE 16 + Len(name)]

\* vaddr_read(addr, len): the memory is outside this file; some fixed content.
vaddr_read(addr, len) == (addr * len + 1) % WordModulus

\* What an unchecked x / 0 can do, by build: trap (the process dies), or
\* yield a value.
DivZeroOutcomes == {"trap", "zero", "ones"}

\* One event of the trace eval_expr leaves:
\*   "call"  entry of eval_expr(p, q)
\*   "set"   *success = ok, in eval_expr(p, q)
\*   "reg"   isa_reg_str2val for the token at p, which set *success = ok
\*   "main"  find_main_operator_index(p, q) gave r >= 0
\*   "mem"   vaddr_read for the dereference at r
\*   "apply" the operator at r applied to its operand values
\*   "ret"   return of eval_expr(p, q), with *success = ok
Ev(ev, p, q, r, ok) == [ev |-> ev, p |-> p, q |-> q, r |-> r, ok |-> ok]

\* The evaluator's state: *success, the trace, the token slots read, and
\* "none" or what ended the process ("assert_token": the Assert of the
\* single-token case; "div_trap": a division by zero that traps; "div": the
\* build's outcome for a division by zero, "" while none happened).
Log(st, ev) == [st EXCEPT !.trace = Append(@, ev)]
SetSuccess(st, p, q, ok) ==
  [st EXCEPT !.success = ok, !.trace = Append(@, Ev("set", p, q, -1, ok))]
Reading(st, slots) == [st EXCEPT !.reads = @ \cup slots]
Return(val, st, p, q) ==
  [val |-> val, st |-> Log(st, Ev("ret", p, q, -1, st.success))]
Abort(st, why) == [val |-> 0, st |-> [st EXCEPT !.abort = why]]

\* The same test left out.
FailedNever(st) == FALSE

\* if (*success == false) return 0;
Failed(st) == st.success = FALSE

\* value_left op value_right for a binary main operator; dz is the build's
\* outcome of a division by zero.
ApplyBinary(op, value_left, value_right, dz) ==
  CASE op = "+" -> (value_left + value_right) % WordModulus
    [] op = "-" -> (value_left - value_right + WordModulus) % WordModulus
    [] op = "*" -> (value_left * value_right) % WordModulus
    [] op = "/" -> IF value_right # 0 THEN value_left \div value_right
                   ELSE IF dz = "zero" THEN 0 ELSE WordModulus - 1
    [] op = "TK_EQ" -> IF value_left = value_right THEN 1 ELSE 0
    [] op = "TK_NE" -> IF value_left # value_right THEN 1 ELSE 0
    [] op = "TK_AND" -> IF value_left # 0 /\ value_right # 0 THEN 1 ELSE 0

RECURSIVE eval_expr(_, _, _, _, _)

\* The same with the left sub-range evaluated before the right one.
eval_main_left_first(tk, p, q, r, st, env) ==
  IF tk[r].type \in UnaryKinds
  THEN LET right == eval_expr(tk, r + 1, q, st, env)
       IN IF right.st.abort # "none" THEN right
          ELSE IF Failed(right.st) THEN Return(0, right.st, p, q)
          ELSE IF tk[r].type = "TK_DEREF"
               THEN Return(vaddr_read(right.val, 4),
                           Log(right.st, Ev("mem", p, q, r, TRUE)), p, q)
               ELSE Return((WordModulus - right.val) % WordModulus,
                           Log(right.st, Ev("apply", p, q, r, TRUE)), p, q)
  ELSE LET left == eval_expr(tk, p, r - 1, st, env)
       IN IF left.st.abort # "none" THEN left
          ELSE IF Failed(left.st) THEN Return(0, left.st, p, q)
          ELSE LET right == eval_expr(tk, r + 1, q, left.st, env)
               IN IF right.st.abort # "none" THEN right
                  ELSE IF Failed(right.st) THEN Return(0, right.st, p, q)
                  ELSE IF tk[r].type = "/" /\ right.val = 0 /\ env.dz = "trap"
                       THEN Abort([right.st EXCEPT !.div = env.dz], "div_trap")
                  ELSE Return(ApplyBinary(tk[r].type, left.val, right.val, env.dz),
                              Log([right.st EXCEPT
                                     !.div = IF tk[r].type = "/" /\ right.val = 0
                                             THEN env.dz ELSE @],
                                  Ev("apply", p, q, r, TRUE)), p, q)

\* eval_expr from the main operator at r on: the right sub-range, the unary
\* operators, the left sub-range, the binary operators.
eval_main(tk, p, q, r, st, env) ==
  LET right == eval_expr(tk, r + 1, q, st, env)
  IN IF right.st.abort # "none" THEN right
     ELSE IF Failed(right.st) THEN Return(0, right.st, p, q)
     ELSE IF tk[r].type = "TK_DEREF"
          THEN Return(vaddr_read(right.val, 4),
                      Log(right.st, Ev("mem", p, q, r, TRUE)), p, q)
     ELSE IF tk[r].type = "TK_NEG"
          THEN Return((WordModulus - right.val) % WordModulus,
                      Log(right.st, Ev("apply", p, q, r, TRUE)), p, q)
     ELSE LET left == eval_expr(tk, p, r - 1, right.st, env)
          IN IF left.st.abort # "none" THEN left
             ELSE IF Failed(left.st) THEN Return(0, left.st, p, q)
             ELSE IF tk[r].type = "/" /\ right.val = 0 /\ env.dz = "trap"
                  THEN Abort([left.st EXCEPT !.div = env.dz], "div_trap")
             ELSE Return(ApplyBinary(tk[r].type, left.val, right.val, env.dz),
                         Log([left.st EXCEPT
                                !.div = IF tk[r].type = "/" /\ right.val = 0
                                        THEN env.dz ELSE @],
                             Ev("apply", p, q, r, TRUE)), p, q)

\* eval_expr(p, q, success) on the token buffer tk; env.bad are the register
\* names whose lookup fails, env.dz the build's outcome of a division by 0.
eval_expr(tk, p, q, st, env) ==
  LET s0 == Log(st, Ev("call", p, q, -1, st.success))
  IN IF p > q THEN Return(0, SetSuccess(s0, p, q, FALSE), p, q)
     ELSE IF p = q
     THEN LET s1 == Reading(SetSuccess(s0, p, q, TRUE), {p})
          IN CASE tk[p].type = "TK_HEX" -> Return(ScanHex(tk[p].str), s1, p, q)
               [] tk[p].type = "TK_UINT" -> Return(ScanDec(tk[p].str), s1, p, q)
               [] tk[p].type = "TK_REG" ->
                    LET reg == isa_reg_str2val(Tail(tk[p].str), env.bad)
                    IN Return(reg.val,
                              [s1 EXCEPT !.success = reg.ok,
                                         !.trace = Append(@, Ev("reg", p, q, -1, reg.ok))],
                              p, q)
               [] OTHER -> Abort(s1, "assert_token")
     ELSE LET s1 == Reading(s0, p .. q)
          IN IF is_paired(tk, p, q)
             THEN LET inner == eval_expr(tk, p + 1, q - 1, s1, env)
                  IN IF inner.st.abort # "none" THEN inner
                     ELSE Return(inner.val, inner.st, p, q)
             ELSE LET s2 == SetSuccess(s1, p, q, TRUE)
                      r == find_main_operator_index(tk, p, q)
                  IN IF r < 0
                     THEN Return(0, SetSuccess(s2, p, q, FALSE), p, q)
                     ELSE eval_main(tk, p, q, r, Log(s2, Ev("main", p, q, r, TRUE)), env)

EvalStart == [success |-> FALSE, trace |-> <<>>, reads |-> {}, abort |-> "none", div |-> ""]

\* ------------------------------------------------------------ the inputs

\* The pieces the exhaustive texts are made of: one lexeme of every token
\* kind, a blank, and a character no rule matches.
Lexemes ==
  {<<"0">>, <<"0", "x", "b">>, <<"$", "a", "0">>, <<"+">>, <<"-">>, <<"*">>,
   <<"/">>, <<"(">>, <<")">>, <<"=", "=">>, <<"!", "=">>, <<"&", "&">>,
   <<" ">>, <<"@">>}

RECURSIVE TextsOf(_)
TextsOf(n) ==
  IF n = 0 THEN {<<>>}
  ELSE LET shorter == TextsOf(n - 1)
       IN shorter \cup {t \o l : t \in shorter, l \in Lexemes}

\* Texts at the capacity of the token buffer and of a captured literal:
\* 32 tokens; 33 tokens, the 33rd an operator; 33 tokens, the 33rd a literal;
\* 33 tokens, the 33rd a register; a literal of 32 characters.
LongTexts ==
  {<<"-">> \o Rep(<<"1", "+">>, (NR_TOKENS - 2) \div 2) \o <<"1">>,
   Rep(<<"(">>, NR_TOKENS + 1),
   Rep(<<"1", "+">>, NR_TOKENS \div 2) \o <<"1">>,
   Rep(<<"1", "+">>, NR_TOKENS \div 2) \o <<"$", "a", "0">>,
   Rep(<<"1">>, STR_LEN)}

Texts == TextsOf(MaxLexemes) \cup LongTexts

\* The register names whose lookup may fail.
BadChoices == SUBSET {<<"a", "0">>}

\* ------------------------------------------------------------- the state

VARIABLES
  script,    \* the texts the debugger will still pass to expr, in order
  e,         \* the text of the current (or last) call of expr
  position,  \* make_token: the scan position in e
  tokens,    \* static Token tokens[32]
  nr_token,  \* static int nr_token
  oob,       \* the slots outside tokens[0 .. 31] that were written
  reads,     \* the token slots the current (or last) call has read
  pc,        \* "idle", "make_token", "aborted" or "undefined"
  halt,      \* what ended the process, "none" while it runs
  success,   \* *success of the last call that returned
  result,    \* the value the last call returned
  trace,     \* the events of eval_expr in the current (or last) call
  returns,   \* every return of expr so far: text, value, success, count
  div0       \* the build's outcome of a division by zero, "" while none happened

vars ==
  <<script, e, position, tokens, nr_token, oob, reads, pc, halt, success,
    result, trace, returns, div0>>

InitWith(scripts) ==
  /\ script \in scripts
  /\ e = <<>>
  /\ position = 0
  /\ tokens = ZeroTokens
  /\ nr_token = 0
  /\ oob = {}
  /\ reads = {}
  /\ pc = "idle"
  /\ halt = "none"
  /\ success = FALSE
  /\ result = 0
  /\ trace = <<>>
  /\ returns = <<>>
  /\ div0 = ""

Init == InitWith({<<t>> : t \in Texts})

\* The call without the reset of nr_token.
ExprCallNoReset ==
  /\ pc = "idle"
  /\ script # <<>>
  /\ e' = Head(script)
  /\ script' = Tail(script)
  /\ position' = 0
  /\ nr_token' = nr_token
  /\ reads' = {}
  /\ trace' = <<>>
  /\ pc' = "make_token"
  /\ UNCHANGED <<tokens, oob, halt, success, result, returns, div0>>

\* expr(e, success) is called; make_token starts: position = 0, nr_token = 0.
ExprCall ==
  /\ pc = "idle"
  /\ script # <<>>
  /\ e' = Head(script)
  /\ script' = Tail(script)
  /\ position' = 0
  /\ nr_token' = 0
  /\ reads' = {}
  /\ trace' = <<>>
  /\ pc' = "make_token"
  /\ UNCHANGED <<tokens, oob, halt, success, result, returns, div0>>

ReturnRecord(text, value, ok, nr) ==
  [text |-> text, value |-> value, success |-> ok, nr_token |-> nr]

\* One iteration of the while loop of make_token.  When no rule matches,
\* make_token returns false and expr returns 0 with *success = false.
MakeTokenStep ==
  /\ pc = "make_token"
  /\ position < Len(e)
  /\ \E m \in MakeTokenIter(e, [position |-> position, nr_token |-> nr_token,
                                tokens |-> tokens, oob |-> oob, reads |-> reads,
                                status |-> "scan"]) :
       /\ position' = m.position
       /\ nr_token' = m.nr_token
       /\ tokens' = m.tokens
       /\ oob' = m.oob
       /\ reads' = m.reads
       /\ pc' = CASE m.status = "scan" -> "make_token"
                  [] m.status = "false" -> "idle"
                  [] m.status = "undefined" -> "undefined"
                  [] OTHER -> "aborted"
       /\ halt' = IF m.status \in {"abort_str_len", "abort_nr_token"}
                  THEN m.status ELSE halt
       /\ success' = IF m.status = "false" THEN FALSE ELSE success
       /\ result' = IF m.status = "false" THEN 0 ELSE result
       /\ returns' = IF m.status = "false"
                     THEN Append(returns, ReturnRecord(e, 0, FALSE, m.nr_token))
                     ELSE returns
  /\ UNCHANGED <<script, e, trace, div0>>

\* make_token returned true: return eval_expr(0, nr_token-1, success).
ExprEval ==
  /\ pc = "make_token"
  /\ position = Len(e)
  /\ \E bad \in BadChoices :
       \E dz \in (IF div0 = "" THEN DivZeroOutcomes ELSE {div0}) :
         LET res == eval_expr(tokens, 0, nr_token - 1,
                              [EvalStart EXCEPT !.reads = reads, !.success = success],
                              [bad |-> bad, dz |-> dz])
         IN /\ trace' = res.st.trace
            /\ reads' = res.st.reads
            /\ div0' = IF res.st.div # "" THEN res.st.div ELSE div0
            /\ IF res.st.abort # "none"
               THEN /\ pc' = "aborted"
                    /\ halt' = res.st.abort
                    /\ UNCHANGED <<success, result, returns>>
               ELSE /\ pc' = "idle"
                    /\ halt' = halt
                    /\ success' = res.st.success
                    /\ result' = res.val
                    /\ returns' = Append(returns,
                                    ReturnRecord(e, res.val, res.st.success, nr_token))
  /\ UNCHANGED <<script, e, position, tokens, nr_token, oob>>

Next == ExprCall \/ MakeTokenStep \/ ExprEval

Spec == Init /\ [][Next]_vars

\* ------------------------------------------------- a whole call, one step

\* expr(text, success) as one step on a token buffer tk0 left by earlier
\* calls: what it returns, or that the process ended.
ExprOn(tk0, text, env) ==
  LET m == MakeTokenLoop(text, MakeTokenStart(tk0))
  IN IF m.status = "false"
     THEN [ended |-> "returned", value |-> 0, success |-> FALSE]
     ELSE IF m.status # "scan"
     THEN [ended |-> m.status, value |-> 0, success |-> FALSE]
     ELSE LET res == eval_expr(m.tokens, 0, m.nr_token - 1, EvalStart, env)
          IN IF res.st.abort # "none"
             THEN [ended |-> res.st.abort, value |-> 0, success |-> FALSE]
             ELSE [ended |-> "returned", value |-> res.val, success |-> res.st.success]

\* ------------------------------------------- the well-formed expressions

\* The reference evaluation: the expressions of the grammar
\*   and  ::= eq   | and && eq
\*   eq   ::= add  | eq == add | eq != add
\*   add  ::= mul  | add + mul | add - mul
\*   mul  ::= un   | mul * un  | mul / un
\*   un   ::= prim | - prim
\*   prim ::= literal | ( and )
\* each with its text and its value in wrap-around word arithmetic, no
\* division by zero among them.
WFLiterals ==
  {[text |-> <<"0">>, val |-> 0], [text |-> <<"2">>, val |-> 2],
   [text |-> <<"1", "3">>, val |-> 13]}

RefBinary(op, a, b) ==
  CASE op = <<"+">> -> (a + b) % WordModulus
    [] op = <<"-">> -> IF a >= b THEN a - b ELSE WordModulus - (b - a)
    [] op = <<"*">> -> (a * b) % WordModulus
    [] op = <<"/">> -> CHOOSE d \in 0 .. a : d * b <= a /\ a < (d + 1) * b
    [] op = <<"=", "=">> -> IF a = b THEN 1 ELSE 0
    [] op = <<"!", "=">> -> IF a = b THEN 0 ELSE 1
    [] op = <<"&", "&">> -> IF a = 0 \/ b = 0 THEN 0 ELSE 1

\* left op right for every left of n1 tokens and right of n2 tokens.
Joined(lefts, ops, rights) ==
  UNION {{[text |-> l.text \o op \o r.text, val |-> RefBinary(op, l.val, r.val)] :
            l \in lefts, r \in {x \in rights : ~(op = <<"/">> /\ x.val = 0)}} :
         op \in ops}

\* WF[n]: the expressions of exactly n tokens, by nonterminal.
WF[n \in 0 .. MaxWF + 1] ==
  LET split(field, lower, ops) ==
        UNION {Joined(WF[k][field], ops, lower[n - 1 - k]) : k \in 1 .. n - 2}
      prim == IF n = 1 THEN WFLiterals
              ELSE IF n >= 3
              THEN {[text |-> <<"(">> \o x.text \o <<")">>, val |-> x.val] :
                      x \in WF[n - 2].and}
              ELSE {}
      un == prim \cup
            (IF n >= 2
             THEN {[text |-> <<"-">> \o x.text,
                    val |-> (WordModulus - x.val) % WordModulus] : x \in WF[n - 1].prim}
             ELSE {})
      unOf == [k \in 0 .. n |-> IF k = n THEN un ELSE WF[k].un]
      mul == un \cup split("mul", unOf, {<<"*">>, <<"/">>})
      mulOf == [k \in 0 .. n |-> IF k = n THEN mul ELSE WF[k].mul]
      add == mul \cup split("add", mulOf, {<<"+">>, <<"-">>})
      addOf == [k \in 0 .. n |-> IF k = n THEN add ELSE WF[k].add]
      eq == add \cup split("eq", addOf, {<<"=", "=">>, <<"!", "=">>})
      eqOf == [k \in 0 .. n |-> IF k = n THEN eq ELSE WF[k].eq]
      and == eq \cup split("and", eqOf, {<<"&", "&">>})
  IN IF n = 0
     THEN [prim |-> {}, un |-> {}, mul |-> {}, add |-> {}, eq |-> {}, and |-> {}]
     ELSE [prim |-> prim, un |-> un, mul |-> mul, add |-> add, eq |-> eq, and |-> and]

WellFormed == UNION {WF[n].and : n \in 1 .. MaxWF}

InitWF == InitWith({<<w.text>> : w \in WellFormed})

SpecWF == InitWF /\ [][Next]_vars

\* ------------------------------------------------- sequences of calls

\* Texts without registers and dereferences, of different token counts;
\* some fail, one divides by zero.
SeqTexts ==
  {<<"7">>, <<"2", "*", "(", "1", "+", "3", ")">>, <<"-", "4">>,
   <<"0", "x", "1", "f">>, <<"1", "+">>, <<"1", "/", "0">>}

RECURSIVE ScriptsOf(_)
ScriptsOf(n) ==
  IF n = 0 THEN {<<>>}
  ELSE LET shorter == ScriptsOf(n - 1)
       IN shorter \cup {<<t>> \o sc : t \in SeqTexts, sc \in shorter}

InitSeq == InitWith(ScriptsOf(MaxCalls) \ {<<>>})

SpecSeq == InitSeq /\ [][Next]_vars

\* ------------------------------------------------------------ the claims

\* The running parenthesis depth after position i of a scan begun at p.
Depth(tk, p, i) ==
  Cardinality({j \in p .. i : tk[j].type = "("})
    - Cardinality({j \in p .. i : tk[j].type = ")"})

LastReturn == returns[Len(returns)]

\* C1: a well-formed expression of integer literals, parentheses, binary
\* operators and negations of a literal or a group, without division by
\* zero, returns success and the value of the reference evaluation (&&
\* loosest, then == !=, then + -, then * /, negation tightest, binary
\* operators left-associative, wrap-around arithmetic).
C1_WellFormedValue ==
  \A i \in DOMAIN returns :
    \A w \in WellFormed :
      w.text = returns[i].text => returns[i].success /\ returns[i].value = w.val

\* 13-2-2 returned 9, which is (13-2)-2 and not 13-(2-2).
C1_Witness ==
  /\ pc = "idle"
  /\ returns # <<>>
  /\ LastReturn.text = <<"1", "3", "-", "2", "-", "2">>
  /\ LastReturn.success
  /\ LastReturn.value = 9

\* C2: a token matched by the `*' or `-' rule is stored as unary when no
\* token precedes it or the preceding token is one of + - * / ( == != &&, and
\* as binary only when the preceding token is a literal, a register or a
\* close-paren: never as binary right after a unary operator.
C2_Disambiguation ==
  \A i \in 0 .. nr_token - 1 :
    /\ (i = 0 \/ tokens[i - 1].type \in {"+", "-", "*", "/", "(", "TK_EQ", "TK_NE", "TK_AND"})
         => tokens[i].type \notin {"*", "-"}
    /\ tokens[i].type \in {"*", "-"}
         => i > 0 /\ tokens[i - 1].type \in {"TK_UINT", "TK_HEX", "TK_REG", ")"}

\* C3: is_paired(p, q), p < q, is true exactly when the token at p is `(',
\* the token at q is `)', and the depth over p+1 .. q-1 never goes negative
\* and ends at zero.
PairedRef(tk, p, q) ==
  /\ tk[p].type = "("
  /\ tk[q].type = ")"
  /\ \A i \in p + 1 .. q - 1 : Depth(tk, p + 1, i) >= 0
  /\ Depth(tk, p + 1, q - 1) = 0

C3_IsPaired ==
  \A p, q \in 0 .. nr_token - 1 :
    p < q => is_paired(tokens, p, q) = PairedRef(tokens, p, q)

\* C4: a text whose tokens have unmatched parentheses (a prefix with more
\* `)' than `(', or different totals) never returns success.
Unmatched(tk, n) ==
  \/ \E i \in 0 .. n - 1 : Depth(tk, 0, i) < 0
  \/ Depth(tk, 0, n - 1) # 0

C4_UnmatchedFails ==
  (pc = "idle" /\ returns # <<>> /\ Unmatched(tokens, nr_token)) => ~success

\* C5: once the text is tokenized (at most 32 tokens, every literal shorter
\* than 32 characters) expr returns to its caller: the process ends only in
\* the tokenizer's capacity assertions, and the Assert of eval_expr's
\* single-token case is never reached.  (A division by zero that traps is
\* the arithmetic's own, documented, gap and is not counted here.)
C5_NoAbortInEval ==
  pc = "aborted" => halt \in {"abort_str_len", "abort_nr_token", "div_trap"}

\* C6: 0 <= nr_token <= 32, and nothing is ever written to a token slot of
\* index 32 or more: a 33rd token of any kind aborts before any store.
C6_NoWriteOutside ==
  /\ nr_token \in 0 .. NR_TOKENS
  /\ oob = {}

\* C7: for a binary main operator at r of [p, q], eval_expr evaluates
\* [r+1, q] first and [p, r-1] second, so the register lookups and memory
\* reads of the right operand precede those of the left one.
IsBinaryMain(x) == x.ev = "main" /\ tokens[x.r].type \in BinaryKinds
ExternalAt(x, lo, hi) ==
  \/ x.ev = "reg" /\ x.p \in lo .. hi
  \/ x.ev = "mem" /\ x.r \in lo .. hi

RightFirst(i) ==
  LET m == trace[i]
  IN /\ i < Len(trace)
     /\ trace[i + 1].ev = "call"
     /\ trace[i + 1].p = m.r + 1
     /\ trace[i + 1].q = m.q
     /\ \A j, k \in DOMAIN trace :
          (ExternalAt(trace[j], m.r + 1, m.q) /\ ExternalAt(trace[k], m.p, m.r - 1))
            => j < k

LeftEvaluated(i) ==
  \E j \in i + 1 .. Len(trace) :
    trace[j].ev = "call" /\ trace[j].p = trace[i].p /\ trace[j].q = trace[i].r - 1

RightSucceeded(i) ==
  \E j \in i + 1 .. Len(trace) :
    /\ trace[j].ev = "ret"
    /\ trace[j].p = trace[i].r + 1
    /\ trace[j].q = trace[i].q
    /\ trace[j].ok

\* C7 as claimed: ... and both sub-ranges are always evaluated (stated of the
\* calls that return).
C7_BothAlwaysEvaluated ==
  pc = "idle" =>
    \A i \in DOMAIN trace :
      IsBinaryMain(trace[i]) => RightFirst(i) /\ LeftEvaluated(i)

\* C7 as amended: ... and the left sub-range is evaluated exactly when the
\* evaluation of the right one returned success, whatever the operator and
\* the operand values.
C7_RightThenLeft ==
  \A i \in DOMAIN trace :
    IsBinaryMain(trace[i]) =>
      RightFirst(i) /\ (LeftEvaluated(i) <=> RightSucceeded(i))

\* A binary main operator with a register lookup on each side, both made.
C7_Witness ==
  /\ pc = "idle"
  /\ success
  /\ \E i \in DOMAIN trace :
       /\ IsBinaryMain(trace[i])
       /\ \E j \in DOMAIN trace : ExternalAt(trace[j], trace[i].r + 1, trace[i].q)
       /\ \E k \in DOMAIN trace : ExternalAt(trace[k], trace[i].p, trace[i].r - 1)

\* C8: what a call returns for a text without registers and memory reads
\* depends on the text alone: it is what the same text returns on a fresh
\* token buffer, equal texts return equal results, and no token slot at or
\* beyond the token count is read.
C8_TextAlone ==
  /\ \A i \in DOMAIN returns :
       LET fresh == ExprOn(ZeroTokens, returns[i].text, [bad |-> {}, dz |-> div0])
       IN /\ fresh.ended = "returned"
          /\ fresh.value = returns[i].value
          /\ fresh.success = returns[i].success
  /\ \A i, j \in DOMAIN returns :
       returns[i].text = returns[j].text
         => /\ returns[i].value = returns[j].value
            /\ returns[i].success = returns[j].success
  /\ \A k \in reads : k < nr_token

\* A text returned twice with success, a call that left more tokens in
\* the buffer in between.
C8_Witness ==
  \E i, j, k \in DOMAIN returns :
    /\ i < j /\ j < k
    /\ returns[i].text = returns[k].text
    /\ returns[k].success
    /\ returns[j].nr_token > returns[k].nr_token

\* C9: once a register lookup fails, or a sub-range is empty or has no
\* main operator, *success is never set back to true, no operator is
\* applied and no memory is read afterwards, and expr returns success=false.
FailureAt(i) == trace[i].ev \in {"set", "reg"} /\ ~trace[i].ok

C9_FailurePropagates ==
  \A i \in DOMAIN trace :
    FailureAt(i) =>
      /\ \A j \in i + 1 .. Len(trace) :
           /\ ~(trace[j].ev \in {"set", "reg"} /\ trace[j].ok)
           /\ trace[j].ev \notin {"apply", "mem"}
      /\ pc = "idle"
      /\ ~success
      /\ ~LastReturn.success

\* A failed register lookup in the right operand of a main operator.
C9_Witness ==
  /\ pc = "idle"
  /\ \E i, j \in DOMAIN trace :
       /\ i < j
       /\ trace[i].ev = "main"
       /\ trace[j].ev = "reg"
       /\ ~trace[j].ok

\* C10: find_main_operator_index(p, q) is the right-most depth-0 operator
\* of least priority (&&, then == !=, then + -, then * /, then the unary
\* operators), and none exactly when no operator is at depth 0.
PriorityOrder ==
  <<{"TK_AND"}, {"TK_EQ", "TK_NE"}, {"+", "-"}, {"*", "/"}, {"TK_DEREF", "TK_NEG"}>>
Rank(kind) == CHOOSE n \in DOMAIN PriorityOrder : kind \in PriorityOrder[n]
Candidates(tk, p, q) ==
  {i \in p .. q : tk[i].type \in OperatorKinds /\ Depth(tk, p, i) = 0}
Lowest(tk, p, q) ==
  {i \in Candidates(tk, p, q) :
     \A j \in Candidates(tk, p, q) : Rank(tk[i].type) <= Rank(tk[j].type)}
MainRef(tk, p, q) ==
  IF Candidates(tk, p, q) = {} THEN -1 ELSE Max(Lowest(tk, p, q))

C10_MainOperator ==
  \A p, q \in 0 .. nr_token - 1 :
    p <= q => find_main_operator_index(tokens, p, q) = MainRef(tokens, p, q)

\* Two depth-0 operators of the same, least, priority: the later is chosen.
C10_Witness ==
  \E p, q \in 0 .. nr_token - 1 :
    /\ p <= q
    /\ Cardinality(Lowest(tokens, p, q)) >= 2
    /\ find_main_operator_index(tokens, p, q) = Max(Lowest(tokens, p, q))

=============================================================================
